---- MODULE Spec2Model ----
(***************************************************************************)
(* Model of the agent runner of agent-image/scripts/src:                   *)
(*   runner.js   run(), reportToSupabase(), handleError() and the two      *)
(*               definitions of runOpencode() the file carries             *)
(*   session.js  getSessionId, zipSession, unzipSession,                   *)
(*               getLatestSessionId, downloadSession, uploadSession,       *)
(*               cleanupSessionZip                                         *)
(* Strings whose characters matter (the model specifier, the child's       *)
(* standard output) are sequences of one-character strings.                *)
(***************************************************************************)
EXTENDS Integers, Sequences, FiniteSets, TLC

VARIABLES
    pc,           \* position of run() / handleError()
    context,     \* what buildContext() returned
    providerKey, \* what validateProviderKeys() returned: "unchecked", "present", "missing"
    error,       \* the error caught by run()'s catch clause
    effects,     \* the side effects of the process so far, in order
    outputs,     \* the records written by writeOutput, in order
    exits,       \* the statuses given to process.exit, in order
    inFlight,    \* number of opencode children running
    child,       \* the opencode child: how its streams are wired, what it wrote, how it ended
    response,    \* what runOpencode returned
    totalCost,   \* run()'s totalCost
    dir,         \* OPENCODE_DIR
    zip,         \* the file at SESSION_ZIP_PATH
    remote,      \* the blob the remote store holds for the session key
    lastCall,    \* the last SessionStore call and how it ended
    records,     \* the message records of the latest session, as run() found them
    keys         \* the session identifiers computed so far, each with its context

vars == <<pc, context, providerKey, error, effects, outputs, exits, inFlight,
          child, response, totalCost, dir, zip, remote, lastCall, records, keys>>

runVars == <<pc, context, providerKey, error, outputs, exits, inFlight,
             child, response, totalCost>>

sessionVars == <<dir, zip, remote, lastCall, records, keys>>

(***************************************************************************)
(* Bounds                                                                  *)
(***************************************************************************)
MaxComponents == 3    \* most separator-delimited components of a model specifier tried
MaxSessionCalls == 1  \* SessionStore calls made before run()
MaxPlain == 52        \* longest block of plain lines in a generated standard output
MaxSmall == 3         \* most lines of a standard output made of arbitrary lines
MaxBranchLen == 2     \* most characters of a branch name tried
MaxKeys == 2          \* session identifiers computed in one behaviour

(***************************************************************************)
(* Strings                                                                 *)
(***************************************************************************)
SeqsUpTo(S, n) == UNION {[1..k -> S] : k \in 0..n}

\* index of the first c in s, 0 when there is none
IndexOf(s, c) ==
    IF \E i \in 1..Len(s) : s[i] = c
    THEN CHOOSE i \in 1..Len(s) : s[i] = c /\ \A j \in 1..(i - 1) : s[j] # c
    ELSE 0

\* String.prototype.split on a one-character separator: the pieces between
\* the separators, empty pieces included
RECURSIVE Split(_, _)
Split(s, sep) ==
    LET i == IndexOf(s, sep)
    IN IF i = 0 THEN <<s>>
       ELSE <<SubSeq(s, 1, i - 1)>> \o Split(SubSeq(s, i + 1, Len(s)), sep)

RECURSIVE Join(_, _)
Join(parts, sep) ==
    IF Len(parts) = 0 THEN <<>>
    ELSE IF Len(parts) = 1 THEN parts[1]
    ELSE parts[1] \o <<sep>> \o Join(Tail(parts), sep)


Whitespace == {" ", "\n"}

\* String.prototype.trim
Trim(s) ==
    IF \A i \in 1..Len(s) : s[i] \in Whitespace THEN <<>>
    ELSE LET first == CHOOSE i \in 1..Len(s) :
                          s[i] \notin Whitespace /\ \A j \in 1..(i - 1) : s[j] \in Whitespace
             last == CHOOSE i \in 1..Len(s) :
                          s[i] \notin Whitespace /\ \A j \in (i + 1)..Len(s) : s[j] \in Whitespace
         IN SubSeq(s, first, last)

StartsWith(s, c) == Len(s) > 0 /\ s[1] = c

Includes(s, pat) ==
    \E i \in 1..(Len(s) - Len(pat) + 1) : SubSeq(s, i, i + Len(pat) - 1) = pat

(***************************************************************************)
(* runner.js: runOpencode                                                  *)
(***************************************************************************)
Separator == "/"

\* a destructured component that is neither undefined nor the empty string
Truthy(parts, i) == i <= Len(parts) /\ parts[i] # <<>>

\* the check with its second half lost: if (!providerID) throw
ValidModelProviderOnly(specifier) ==
    Truthy(Split(specifier, Separator), 1)

\* const [providerID, modelID] = split('/'); if (!providerID || !modelID) throw
ValidModel(specifier) ==
    LET parts == Split(specifier, Separator)
    IN Truthy(parts, 1) /\ Truthy(parts, 2)

ToolMarker == <<"T", "o", "o", "l", ":">>
ProgressMarker == <<">", ">", ">">>
FinalLineLimit == 50

\* the test of the backwards scan, on one element of lines
Qualifies(rawLine) ==
    LET line == Trim(rawLine)
    IN /\ line # <<>>
       /\ ~StartsWith(line, "[")
       /\ ~Includes(line, ToolMarker)
       /\ ~Includes(line, ProgressMarker)

\* the scan with the bound off by one: lastNonEmptyLines.length <= 50
RECURSIVE LastNonEmptyLinesOneMore(_, _, _)
LastNonEmptyLinesOneMore(lines, i, acc) ==
    IF i >= 1 /\ Len(acc) <= FinalLineLimit
    THEN LastNonEmptyLinesOneMore(lines, i - 1,
                                  IF Qualifies(lines[i]) THEN <<lines[i]>> \o acc ELSE acc)
    ELSE acc

\* for (i = lines.length - 1; i >= 0 && lastNonEmptyLines.length < 50; i--)
RECURSIVE LastNonEmptyLines(_, _, _)
LastNonEmptyLines(lines, i, acc) ==
    IF i >= 1 /\ Len(acc) < FinalLineLimit
    THEN LastNonEmptyLines(lines, i - 1,
                           IF Qualifies(lines[i]) THEN <<lines[i]>> \o acc ELSE acc)
    ELSE acc

FinalResponse(fullOutput) ==
    LET lines == Split(fullOutput, "\n")
        lastNonEmptyLines == LastNonEmptyLines(lines, Len(lines), <<>>)
    IN IF Len(lastNonEmptyLines) > 0
       THEN Trim(Join(lastNonEmptyLines, "\n"))
       ELSE fullOutput

(***************************************************************************)
(* session.js: the state directory, the scratch archive, the remote blob   *)
(***************************************************************************)
\* A path p stands for the state record storage/message/<p>/msg.json
Paths == {"ses_1", "ses_2"}
Contents == {"v1", "v2"}
Absent == "absent"
FileMaps == [Paths -> Contents \cup {Absent}]
NoFiles == [p \in Paths |-> Absent]

NoDir == [exists |-> FALSE, files |-> NoFiles]
Dir(files) == [exists |-> TRUE, files |-> files]

\* the project alone: every branch of a project gets the same identifier
GetSessionIdOfProject(ctx) == ctx.projectId

\* `${context.projectId}_${context.branch}`
GetSessionId(ctx) == ctx.projectId \o <<"_">> \o ctx.branch

\* a file holding archive bytes: the scratch archive, or the remote blob
NoBlob == [exists |-> FALSE, valid |-> FALSE, files |-> NoFiles]
Corrupt == [exists |-> TRUE, valid |-> FALSE, files |-> NoFiles]
Archive(files) == [exists |-> TRUE, valid |-> TRUE, files |-> files]

\* unzip -o: a file of the archive replaces the file at the same path
Merge(base, over) == [p \in Paths |-> IF over[p] # Absent THEN over[p] ELSE base[p]]

\* the files of an archive restricted to the paths in S
Restrict(files, S) == [p \in Paths |-> IF p \in S THEN files[p] ELSE Absent]

\* How a call ends: the state it leaves, the requests it sent, what it
\* returned, whether an exception left it, whether anything in it failed,
\* and what the environment answered (a response status, a missing file).
Outcome(d, z, r, sent, ret, threw, failed) ==
    [dir |-> d, zip |-> z, remote |-> r, sent |-> sent,
     ret |-> ret, threw |-> threw, failed |-> failed, status |-> "none"]

WithStatus(o, status) == [o EXCEPT !.status = status]

Throw(d, z, r, sent) == Outcome(d, z, r, sent, "none", TRUE, TRUE)

\* a try block whose catch clause is missing: the exception leaves the call
CatchNothing(o, sentinel) == o

\* try { ... } catch (error) { log; return sentinel }
Catch(o, sentinel) ==
    IF o.threw THEN [o EXCEPT !.ret = sentinel, !.threw = FALSE] ELSE o

\* getLatestSessionId: the session directory ls -td lists first, or null.
\* Modification times are not part of the model: any session present may
\* be the latest one.
GetLatestSessionIdBody(d, z, r) ==
    LET present == {p \in Paths : d.files[p] # Absent}
    IN IF ~d.exists \/ present = {}
       THEN {Outcome(d, z, r, <<>>, "null", FALSE, FALSE)}   \* no storage/message
       ELSE {Outcome(d, z, r, <<>>, p, FALSE, FALSE) : p \in present}
            \cup {Throw(d, z, r, <<>>)}                       \* execSync throws

GetLatestSessionId(d, z, r) ==
    {Catch(o, "null") : o \in GetLatestSessionIdBody(d, z, r)}

\* the old archive not removed: zip -r adds to the archive it finds, which
\* keeps the entries whose files are gone
ZipSessionBodyKeepOld(d, z, r) ==
    IF ~d.exists THEN {Outcome(d, z, r, <<>>, "null", FALSE, FALSE)}
    ELSE {Throw(d, z, r, <<>>)}
         \cup (IF d.files # NoFiles /\ (z.valid \/ ~z.exists)
               THEN {Outcome(d, Archive(Merge(z.files, d.files)), r, <<>>, "path", FALSE, FALSE)}
               ELSE {})

\* zip without -r: the entries of the directory itself and nothing below it
ZipSessionBodyNoRecurse(d, z, r) ==
    IF ~d.exists THEN {Outcome(d, z, r, <<>>, "null", FALSE, FALSE)}
    ELSE (IF z.exists THEN {Throw(d, z, r, <<>>)} ELSE {})
         \cup {Throw(d, NoBlob, r, <<>>)}
         \cup (IF d.files # NoFiles
               THEN {Outcome(d, Archive(NoFiles), r, <<>>, "path", FALSE, FALSE)}
               ELSE {})

\* zip -m: the files are moved into the archive
ZipSessionBodyMove(d, z, r) ==
    IF ~d.exists THEN {Outcome(d, z, r, <<>>, "null", FALSE, FALSE)}
    ELSE (IF z.exists THEN {Throw(d, z, r, <<>>)} ELSE {})
         \cup {Throw(d, NoBlob, r, <<>>)}
         \cup (IF d.files # NoFiles
               THEN {Outcome(Dir(NoFiles), Archive(d.files), r, <<>>, "path", FALSE, FALSE)}
               ELSE {})

ZipSessionBody(d, z, r) ==
    IF ~d.exists THEN {Outcome(d, z, r, <<>>, "null", FALSE, FALSE)}
    ELSE \* rmSync throws
         (IF z.exists THEN {Throw(d, z, r, <<>>)} ELSE {})
         \cup \* zip exits non-zero (it does when there is nothing to add)
         {Throw(d, NoBlob, r, <<>>)}
         \cup
         (IF d.files # NoFiles
          THEN {Outcome(d, Archive(d.files), r, <<>>, "path", FALSE, FALSE)}
          ELSE {})

ZipSession(d, z, r) == {Catch(o, "null") : o \in ZipSessionBody(d, z, r)}

\* the state directory made before zipPath is looked at
UnzipSessionBodyMkdirFirst(a, d, z, r) ==
    IF ~a.exists
    THEN {WithStatus(Outcome(Dir(d.files), z, r, <<>>, "null", FALSE, TRUE), "ENOENT")}
    ELSE IF ~a.valid
         THEN {Throw(Dir(d.files), z, r, <<>>)}
         ELSE {Throw(Dir(Merge(d.files, Restrict(a.files, S))), z, r, <<>>) :
                   S \in SUBSET Paths}
              \cup GetLatestSessionId(Dir(Merge(d.files, a.files)), z, r)

\* a is the file at zipPath (NoBlob when there is none)
UnzipSessionBody(a, d, z, r) ==
    IF ~a.exists THEN {WithStatus(Outcome(d, z, r, <<>>, "null", FALSE, TRUE), "ENOENT")}
    ELSE LET made == Dir(d.files)
         IN \* mkdirSync throws
            (IF ~d.exists THEN {Throw(d, z, r, <<>>)} ELSE {})
            \cup
            (IF ~a.valid
             THEN {Throw(made, z, r, <<>>)}
             ELSE \* unzip stops part way
                  {Throw(Dir(Merge(d.files, Restrict(a.files, S))), z, r, <<>>) :
                       S \in SUBSET Paths}
                  \cup
                  GetLatestSessionId(Dir(Merge(d.files, a.files)), z, r))

UnzipSession(a, d, z, r) == {Catch(o, "null") : o \in UnzipSessionBody(a, d, z, r)}

\* the response body written to the scratch archive before the status is read
DownloadSessionBodyWriteFirst(d, z, r) ==
    {WithStatus(Throw(d, z, r, <<"GET">>), "unreachable")}
    \cup
    (IF ~r.exists
     THEN {WithStatus(Outcome(d, Corrupt, r, <<"GET">>, "false", FALSE, FALSE), "404")}
     ELSE {})
    \cup
    {WithStatus(Outcome(d, Corrupt, r, <<"GET">>, "false", FALSE, TRUE), "5xx")}
    \cup
    (IF r.exists
     THEN {WithStatus(Throw(d, z, r, <<"GET">>), "200")}
          \cup
          {[o EXCEPT !.sent = <<"GET">>, !.status = "200"] : o \in UnzipSession(r, d, r, r)}
     ELSE {})

DownloadSessionBody(d, z, r) ==
    \* fetch rejects
    {WithStatus(Throw(d, z, r, <<"GET">>), "unreachable")}
    \cup \* 404
    (IF ~r.exists
     THEN {WithStatus(Outcome(d, z, r, <<"GET">>, "false", FALSE, FALSE), "404")}
     ELSE {})
    \cup \* any other status that is not ok
    {WithStatus(Outcome(d, z, r, <<"GET">>, "false", FALSE, TRUE), "5xx")}
    \cup
    (IF r.exists
     THEN \* arrayBuffer or writeFileSync throws
          {WithStatus(Throw(d, z, r, <<"GET">>), "200")}
          \cup
          {[o EXCEPT !.sent = <<"GET">>, !.status = "200"] : o \in UnzipSession(r, d, r, r)}
     ELSE {})

DownloadSession(d, z, r) == {Catch(o, "false") : o \in DownloadSessionBody(d, z, r)}

\* response.ok never read: true whatever the store answered
UploadSessionBodyIgnoreStatus(d, z, r) ==
    UNION {
        IF zo.ret = "null"
        THEN {[zo EXCEPT !.ret = "false", !.status = "no archive"]}
        ELSE {Throw(d, zo.zip, r, <<>>)}
             \cup {WithStatus(Throw(d, zo.zip, r, <<"PUT">>), "unreachable")}
             \cup {WithStatus(Outcome(d, zo.zip, r, <<"PUT">>, "true", FALSE, TRUE), "5xx")}
             \cup {WithStatus(Outcome(d, zo.zip, zo.zip, <<"PUT">>, "true", FALSE, FALSE), "200")}
        : zo \in ZipSession(d, z, r)}

UploadSessionBody(d, z, r) ==
    UNION {
        IF zo.ret = "null"
        THEN {[zo EXCEPT !.ret = "false", !.status = "no archive"]}
        ELSE \* readFileSync throws
             {Throw(d, zo.zip, r, <<>>)}
             \cup \* fetch rejects
             {WithStatus(Throw(d, zo.zip, r, <<"PUT">>), "unreachable")}
             \cup \* response not ok; response.text() may throw as well
             {WithStatus(Outcome(d, zo.zip, r, <<"PUT">>, "false", FALSE, TRUE), "5xx"),
              WithStatus(Throw(d, zo.zip, r, <<"PUT">>), "5xx")}
             \cup
             {WithStatus(Outcome(d, zo.zip, zo.zip, <<"PUT">>, "true", FALSE, FALSE), "200")}
        : zo \in ZipSession(d, z, r)}

UploadSession(d, z, r) == {Catch(o, "false") : o \in UploadSessionBody(d, z, r)}

CleanupSessionZipBody(d, z, r) ==
    IF z.exists
    THEN {Outcome(d, NoBlob, r, <<>>, "undefined", FALSE, FALSE), Throw(d, z, r, <<>>)}
    ELSE {Outcome(d, z, r, <<>>, "undefined", FALSE, FALSE)}

CleanupSessionZip(d, z, r) ==
    {Catch(o, "undefined") : o \in CleanupSessionZipBody(d, z, r)}

(***************************************************************************)
(* SessionStore calls, made by the entry point before it calls run()       *)
(***************************************************************************)
NoCall == [op |-> "none", ret |-> "none", threw |-> FALSE, failed |-> FALSE,
           status |-> "none", n |-> 0]

SessionCall(op, outcomes) ==
    /\ pc = "idle"
    /\ lastCall.n < MaxSessionCalls
    /\ \E o \in outcomes :
           /\ dir' = o.dir
           /\ zip' = o.zip
           /\ remote' = o.remote
           /\ effects' = effects \o o.sent
           /\ lastCall' = [op |-> op, ret |-> o.ret, threw |-> o.threw,
                           failed |-> o.failed, status |-> o.status,
                           n |-> lastCall.n + 1]
    /\ UNCHANGED runVars
    /\ UNCHANGED <<records, keys>>

CallZipSession == SessionCall("zipSession", ZipSession(dir, zip, remote))

CallUnzipSession ==
    \E a \in {zip, NoBlob} :   \* zipPath names the scratch archive, or no file
        SessionCall("unzipSession", UnzipSession(a, dir, zip, remote))

CallGetLatestSessionId ==
    SessionCall("getLatestSessionId", GetLatestSessionId(dir, zip, remote))

CallDownloadSession == SessionCall("downloadSession", DownloadSession(dir, zip, remote))

CallUploadSession == SessionCall("uploadSession", UploadSession(dir, zip, remote))

CallCleanupSessionZip ==
    SessionCall("cleanupSessionZip", CleanupSessionZip(dir, zip, remote))

(***************************************************************************)
(* runner.js: run, reportToSupabase, handleError                           *)
(***************************************************************************)
\* the values of OPENCODE_MODEL tried: up to MaxComponents components, each
\* empty or not, joined by the separator
Components == {<<>>, <<"a">>}
ModelSpecifiers == {Join(c, Separator) : c \in SeqsUpTo(Components, MaxComponents) \ {<<>>}}
StderrTexts == {"", "boom"}
StdoutTexts == {<<>>, <<" ", "a", "\n", "[", "b">>}

\* A message record is a file <session>/<id>.json. What matters of it: whether
\* it is JSON at all, and the type and value of its cost field.
Number(n) == [json |-> TRUE, type |-> "number", n |-> n]
NullCost == [json |-> TRUE, type |-> "null", n |-> 0]       \* {"cost": null}
MissingCost == [json |-> TRUE, type |-> "missing", n |-> 0] \* no cost field
StringCost == [json |-> TRUE, type |-> "string", n |-> 0]   \* {"cost": "abc"}
Malformed == [json |-> FALSE, type |-> "none", n |-> 0]     \* not JSON

\* the records the child may have left behind
RunRecords ==
    {<<Number(1), NullCost, MissingCost, Number(2)>>,
     <<Number(1), StringCost, Number(2)>>,
     <<Number(2), Malformed>>}

\* jq values: null, a number, a string; or the error that ends jq
JqNull == [type |-> "null", n |-> 0]
JqNumber(n) == [type |-> "number", n |-> n]
JqString == [type |-> "string", n |-> 0]
JqError == [type |-> "error", n |-> 0]

\* .cost of a record: null when the object has no such field
JqCostOf(rec) ==
    IF rec.type = "number" THEN JqNumber(rec.n)
    ELSE IF rec.type = "string" THEN JqString
    ELSE JqNull

\* jq's a + b
JqPlus(a, b) ==
    IF a.type = "error" \/ b.type = "error" THEN JqError
    ELSE IF a.type = "null" THEN b
    ELSE IF b.type = "null" THEN a
    ELSE IF a.type = "number" /\ b.type = "number" THEN JqNumber(a.n + b.n)
    ELSE IF a.type = "string" /\ b.type = "string" THEN JqString
    ELSE JqError

\* jq's add: the values folded with +, from null
RECURSIVE JqAdd(_)
JqAdd(vs) ==
    IF vs = <<>> THEN JqNull
    ELSE JqPlus(JqAdd(SubSeq(vs, 1, Len(vs) - 1)), vs[Len(vs)])

\* jq -s 'map(.cost) | add' <session>/*.json: with no file the pattern stays
\* as it is and jq cannot open it; a file that is not JSON ends jq as well
JqSlurpCost(rs) ==
    IF rs = <<>> \/ \E i \in 1..Len(rs) : ~rs[i].json
    THEN JqError
    ELSE JqAdd([i \in 1..Len(rs) |-> JqCostOf(rs[i])])

\* parseFloat(execSync(costCmd).trim()) || 0, and 0 when execSync throws
TotalCost(rs) ==
    LET v == JqSlurpCost(rs)
    IN IF v.type = "number" THEN v.n ELSE 0
TelemetryOutcomes == {"ok", "unreachable", "non2xx", "badbody"}

NoContext == [built |-> FALSE, configValid |-> FALSE, opencodeModel |-> <<>>]
NoError == [kind |-> "none", detail |-> ""]
NoChild == [piped |-> FALSE, launched |-> FALSE, status |-> 0,
            stdout |-> <<>>, stderr |-> ""]
NoResponse == [returned |-> FALSE, fullOutput |-> <<>>, finalResponse |-> <<>>,
               stderr |-> ""]

Err(kind, detail) == [kind |-> kind, detail |-> detail]

\* throw inside run()'s try block
Caught(e) == /\ error' = e
             /\ pc' = "catch"

\* result.stderr as spawnSync gives it: the text when the stream is piped
\* and the child ran, null otherwise
ResultStderr(c) == IF c.piped /\ c.launched THEN c.stderr ELSE "null"

\* line 13, outside the try block
BuildContext ==
    /\ pc = "idle"
    /\ effects' = Append(effects, "run")
    /\ \/ /\ \E valid \in BOOLEAN, m \in ModelSpecifiers :
                 context' = [built |-> TRUE, configValid |-> valid, opencodeModel |-> m]
          /\ pc' = "validateConfig"
          /\ UNCHANGED error
       \/ \* buildContext throws: the rejection leaves run()
          /\ error' = Err("context", "buildContext failed")
          /\ pc' = "REJECTED"
          /\ UNCHANGED context
    /\ UNCHANGED <<providerKey, outputs, exits, inFlight, child, response, totalCost>>
    /\ UNCHANGED sessionVars

\* validateConfig (config.js): throws when a required setting is missing
ValidateConfigThrows(ctx) == ~ctx.configValid

\* run() without line 21
ValidateConfigSkipped ==
    /\ pc = "validateConfig"
    /\ pc' = "gitSetup"
    /\ UNCHANGED <<context, providerKey, error, effects, outputs, exits, inFlight, child,
                   response, totalCost>>
    /\ UNCHANGED sessionVars

\* line 21
ValidateConfig ==
    /\ pc = "validateConfig"
    /\ IF ~ValidateConfigThrows(context)
       THEN pc' = "gitSetup" /\ UNCHANGED error
       ELSE Caught(Err("config", "missing required configuration"))
    /\ UNCHANGED <<context, providerKey, effects, outputs, exits, inFlight, child,
                   response, totalCost>>
    /\ UNCHANGED sessionVars

\* gitSetup, then setupLocalRepository or ensureBranch
GitSetup ==
    /\ pc = "gitSetup"
    /\ effects' = Append(effects, "git")
    /\ \/ pc' = "validateProviderKeys" /\ UNCHANGED error
       \/ Caught(Err("git", "git setup failed"))
    /\ UNCHANGED <<context, providerKey, outputs, exits, inFlight, child, response,
                   totalCost>>
    /\ UNCHANGED sessionVars

\* lines 31-36 with a throw in place of the warning
ValidateProviderKeysStrict ==
    /\ pc = "validateProviderKeys"
    /\ \E k \in {"present", "missing"} :
           /\ providerKey' = k
           /\ IF k = "missing"
              THEN Caught(Err("providerKey", "no provider API key"))
              ELSE pc' = "runOpencode" /\ UNCHANGED error
    /\ UNCHANGED <<context, effects, outputs, exits, inFlight, child, response,
                   totalCost>>
    /\ UNCHANGED sessionVars

\* lines 31-36: a missing key is logged as a warning
ValidateProviderKeys ==
    /\ pc = "validateProviderKeys"
    /\ \E k \in {"present", "missing"} : providerKey' = k
    /\ pc' = "runOpencode"
    /\ UNCHANGED <<context, error, effects, outputs, exits, inFlight, child, response,
                   totalCost>>
    /\ UNCHANGED sessionVars

\* runOpencode up to the spawn: lines 128-131 and 208-211
CheckModel ==
    /\ pc = "runOpencode"
    /\ IF ValidModel(context.opencodeModel)
       THEN pc' = "spawn" /\ UNCHANGED error
       ELSE Caught(Err("model", "Invalid OPENCODE_MODEL format"))
    /\ UNCHANGED <<context, providerKey, effects, outputs, exits, inFlight, child,
                   response, totalCost>>
    /\ UNCHANGED sessionVars

\* spawnSync starts the child; the thread blocks until ChildExit
Spawn(piped) ==
    /\ pc = "spawn"
    /\ inFlight' = inFlight + 1
    /\ effects' = Append(effects, "spawn")
    /\ child' = [NoChild EXCEPT !.piped = piped]
    /\ pc' = "child"
    /\ UNCHANGED <<context, providerKey, error, outputs, exits, response, totalCost>>
    /\ UNCHANGED sessionVars

\* lines 151-155: stdio ["pipe", "pipe", "pipe"]
SpawnCaptured == Spawn(TRUE)

\* lines 230-234: stdio ["pipe", process.stdout, process.stderr]
SpawnInherited == Spawn(FALSE)

\* what runOpencode returns: lines 174-201; the second definition returns nothing
Returned(c) ==
    IF c.piped
    THEN [returned |-> TRUE, fullOutput |-> c.stdout,
          finalResponse |-> FinalResponse(c.stdout), stderr |-> c.stderr]
    ELSE NoResponse

\* if (result.status !== 0) throw new Error(`opencode CLI failed: ${result.stderr}`)
SubprocessError(c) == Err("subprocess", ResultStderr(c))

ChildExit ==
    /\ pc = "child"
    /\ inFlight' = inFlight - 1
    /\ \E launched \in BOOLEAN, status \in {0, 1}, out \in StdoutTexts, err \in StderrTexts :
          LET c == [piped |-> child.piped, launched |-> launched,
                    status |-> IF launched THEN status ELSE 1,
                    stdout |-> IF child.piped /\ launched /\ status = 0 THEN out ELSE <<>>,
                    stderr |-> IF launched THEN err ELSE ""]
          IN /\ child' = c
             /\ IF c.launched /\ c.status = 0
                THEN /\ response' = Returned(c)
                     /\ pc' = "cost"
                     /\ UNCHANGED error
                ELSE /\ Caught(SubprocessError(c))
                     /\ UNCHANGED response
    /\ UNCHANGED <<context, providerKey, effects, outputs, exits, totalCost>>
    /\ UNCHANGED sessionVars

\* lines 44-58: any failure of the two commands leaves totalCost at 0.
\* run() drops what runOpencode returned (line 38); result was its local
ComputeCost ==
    /\ pc = "cost"
    /\ \E rs \in RunRecords :
           /\ records' = rs
           /\ totalCost' = TotalCost(rs)
    /\ child' = NoChild
    /\ response' = NoResponse
    /\ pc' = "report"
    /\ UNCHANGED <<context, providerKey, error, effects, outputs, exits, inFlight>>
    /\ UNCHANGED <<dir, zip, remote, lastCall, keys>>

\* reportToSupabase without its try block: what fetch, response.text() or
\* response.json() throws reaches run()'s catch clause
ReportToSupabaseRethrows ==
    /\ pc = "report"
    /\ \E t \in TelemetryOutcomes :
           /\ effects' = effects \o <<"POST", t>>
           /\ IF t \in {"unreachable", "badbody"}
              THEN Caught(Err("telemetry", t))
              ELSE pc' = "writeOutput" /\ UNCHANGED error
    /\ UNCHANGED <<context, providerKey, outputs, exits, inFlight, child,
                   response, totalCost>>
    /\ UNCHANGED sessionVars

\* lines 76-109: every failure is caught and logged
ReportToSupabase ==
    /\ pc = "report"
    /\ \E t \in TelemetryOutcomes : effects' = effects \o <<"POST", t>>
    /\ pc' = "writeOutput"
    /\ UNCHANGED <<context, providerKey, error, outputs, exits, inFlight, child,
                   response, totalCost>>
    /\ UNCHANGED sessionVars

SuccessRecord == [success |-> TRUE, error |-> NoError, cost |-> totalCost]
FailureRecord == [success |-> FALSE, error |-> error, cost |-> 0]

\* lines 63-68, inside the try block
WriteSuccess ==
    /\ pc = "writeOutput"
    /\ \/ /\ outputs' = Append(outputs, SuccessRecord)
          /\ pc' = "exit0"
          /\ UNCHANGED error
       \/ /\ Caught(Err("output", "writeOutput failed"))
          /\ UNCHANGED outputs
    /\ UNCHANGED <<context, providerKey, effects, exits, inFlight, child, response,
                   totalCost>>
    /\ UNCHANGED sessionVars

\* line 70
ExitSuccess ==
    /\ pc = "exit0"
    /\ exits' = Append(exits, 0)
    /\ pc' = "SUCCEEDED"
    /\ UNCHANGED <<context, providerKey, error, effects, outputs, inFlight, child,
                   response, totalCost>>
    /\ UNCHANGED sessionVars

\* handleError, lines 113-118
PostComment ==
    /\ pc = "catch"
    /\ effects' = Append(effects, "comment")
    /\ pc' = "writeFailure"
    /\ UNCHANGED <<context, providerKey, error, outputs, exits, inFlight, child,
                   response, totalCost>>
    /\ UNCHANGED sessionVars

\* handleError, line 119; an exception here leaves run()
WriteFailure ==
    /\ pc = "writeFailure"
    /\ \/ /\ outputs' = Append(outputs, FailureRecord)
          /\ pc' = "exit1"
       \/ /\ pc' = "REJECTED"
          /\ UNCHANGED outputs
    /\ UNCHANGED <<context, providerKey, error, effects, exits, inFlight, child,
                   response, totalCost>>
    /\ UNCHANGED sessionVars

\* handleError, line 120
ExitFailure ==
    /\ pc = "exit1"
    /\ exits' = Append(exits, 1)
    /\ pc' = "FAILED"
    /\ UNCHANGED <<context, providerKey, error, effects, outputs, inFlight, child,
                   response, totalCost>>
    /\ UNCHANGED sessionVars

(***************************************************************************)
(* The process: SessionStore calls, then run()                             *)
(***************************************************************************)
InitialDirs == {NoDir, Dir([p \in Paths |-> IF p = "ses_1" THEN "v1" ELSE Absent])}
InitialRemotes == {NoBlob, Corrupt, Archive([p \in Paths |-> "v2"])}

Init ==
    /\ pc = "idle"
    /\ context = NoContext
    /\ providerKey = "unchecked"
    /\ error = NoError
    /\ effects = <<>>
    /\ outputs = <<>>
    /\ exits = <<>>
    /\ inFlight = 0
    /\ child = NoChild
    /\ response = NoResponse
    /\ totalCost = 0
    /\ dir \in InitialDirs
    /\ zip = NoBlob
    /\ remote \in InitialRemotes
    /\ lastCall = NoCall
    /\ records = <<>>
    /\ keys = <<>>

Next ==
    \/ CallZipSession
    \/ CallUnzipSession
    \/ CallGetLatestSessionId
    \/ CallDownloadSession
    \/ CallUploadSession
    \/ CallCleanupSessionZip
    \/ BuildContext
    \/ ValidateConfig
    \/ GitSetup
    \/ ValidateProviderKeys
    \/ CheckModel
    \/ SpawnCaptured
    \/ SpawnInherited
    \/ ChildExit
    \/ ComputeCost
    \/ ReportToSupabase
    \/ WriteSuccess
    \/ ExitSuccess
    \/ PostComment
    \/ WriteFailure
    \/ ExitFailure

Spec == Init /\ [][Next]_vars

TypeOK ==
    /\ pc \in {"idle", "validateConfig", "gitSetup", "validateProviderKeys",
               "runOpencode", "spawn", "child", "cost", "report", "writeOutput",
               "exit0", "catch", "writeFailure", "exit1",
               "SUCCEEDED", "FAILED", "REJECTED"}
    /\ inFlight \in 0..1
    /\ Len(exits) <= 1

(***************************************************************************)
(* runOpencode's result extraction alone, over generated standard outputs  *)
(***************************************************************************)
LineKinds ==
    {<<>>, <<" ">>, <<"a">>, <<" ", "b", " ">>, <<"[", "a">>, <<" ", "[">>,
     <<"a", "[">>, <<"a">> \o ToolMarker, <<"T", "o", "o", "l">>,
     ProgressMarker \o <<"a">>, <<">", ">">>}

EdgeLines == {<<>>, <<"[", "a">>, <<" ", "a", " ">>, <<"a">> \o ProgressMarker}

PlainLine(i) ==
    IF i % 3 = 0 THEN <<"a">> ELSE IF i % 3 = 1 THEN <<"b", "a">> ELSE <<" ", "b">>

\* short outputs of arbitrary lines, and long ones: a block of k plain
\* lines between at most one line before and one after
SmallOutputs == {Join(ls, "\n") : ls \in SeqsUpTo(LineKinds, MaxSmall)}
LongOutputs ==
    {Join(h \o [i \in 1..k |-> PlainLine(i)] \o t, "\n") :
         h \in SeqsUpTo(EdgeLines, 1), t \in SeqsUpTo(EdgeLines, 1), k \in 0..MaxPlain}
GeneratedOutputs == SmallOutputs \cup LongOutputs

InitOutput ==
    /\ pc = "child exited"
    /\ context = NoContext
    /\ providerKey = "unchecked"
    /\ error = NoError
    /\ effects = <<>>
    /\ outputs = <<>>
    /\ exits = <<>>
    /\ inFlight = 0
    /\ \E out \in GeneratedOutputs :
           child = [piped |-> TRUE, launched |-> TRUE, status |-> 0,
                    stdout |-> out, stderr |-> ""]
    /\ response = NoResponse
    /\ totalCost = 0
    /\ dir = NoDir
    /\ zip = NoBlob
    /\ remote = NoBlob
    /\ lastCall = NoCall
    /\ records = <<>>
    /\ keys = <<>>

\* lines 174-201
ReturnResponse ==
    /\ pc = "child exited"
    /\ response' = Returned(child)
    /\ pc' = "returned"
    /\ UNCHANGED <<context, providerKey, error, effects, outputs, exits, inFlight,
                   child, totalCost>>
    /\ UNCHANGED sessionVars

NextOutput == ReturnResponse

SpecOutput == InitOutput /\ [][NextOutput]_vars

(***************************************************************************)
(* session.js alone: its exported calls over every state directory,        *)
(* scratch archive and remote blob                                         *)
(***************************************************************************)
SessionDirs == {NoDir} \cup {Dir(f) : f \in FileMaps}
SessionBlobs == {NoBlob, Corrupt} \cup {Archive(f) : f \in FileMaps \ {NoFiles}}

InitSession ==
    /\ pc = "idle"
    /\ context = NoContext
    /\ providerKey = "unchecked"
    /\ error = NoError
    /\ effects = <<>>
    /\ outputs = <<>>
    /\ exits = <<>>
    /\ inFlight = 0
    /\ child = NoChild
    /\ response = NoResponse
    /\ totalCost = 0
    /\ dir \in SessionDirs
    /\ zip \in SessionBlobs
    /\ remote \in SessionBlobs
    /\ lastCall = NoCall
    /\ records = <<>>
    /\ keys = <<>>

NextSession ==
    \/ CallZipSession
    \/ CallUnzipSession
    \/ CallGetLatestSessionId
    \/ CallDownloadSession
    \/ CallUploadSession
    \/ CallCleanupSessionZip

SpecSession == InitSession /\ [][NextSession]_vars

(***************************************************************************)
(* getSessionId alone, over project ids and branch names that hold the     *)
(* separator themselves                                                    *)
(***************************************************************************)
ProjectIds == {<<"7">>, <<"7", "_", "a">>}
BranchChars == {"a", "_"}
Branches == SeqsUpTo(BranchChars, MaxBranchLen) \ {<<>>}

CallGetSessionId ==
    /\ pc = "idle"
    /\ Len(keys) < MaxKeys
    /\ \E projectId \in ProjectIds, branch \in Branches :
           LET ctx == [projectId |-> projectId, branch |-> branch]
           IN keys' = Append(keys, [context |-> ctx, id |-> GetSessionId(ctx)])
    /\ UNCHANGED runVars
    /\ UNCHANGED <<effects, dir, zip, remote, lastCall, records>>

InitSessionId ==
    /\ pc = "idle"
    /\ context = NoContext
    /\ providerKey = "unchecked"
    /\ error = NoError
    /\ effects = <<>>
    /\ outputs = <<>>
    /\ exits = <<>>
    /\ inFlight = 0
    /\ child = NoChild
    /\ response = NoResponse
    /\ totalCost = 0
    /\ dir = NoDir
    /\ zip = NoBlob
    /\ remote = NoBlob
    /\ lastCall = NoCall
    /\ records = <<>>
    /\ keys = <<>>

NextSessionId == CallGetSessionId

SpecSessionId == InitSessionId /\ [][NextSessionId]_vars

(***************************************************************************)
(* Vocabulary of the properties                                            *)
(***************************************************************************)
Occurs(e) == \E i \in 1..Len(effects) : effects[i] = e

\* effect a happened, and effect b after it
Before(a, b) ==
    \E i, j \in 1..Len(effects) : i < j /\ effects[i] = a /\ effects[j] = b

\* effect e happened after run() was entered
InRun(e) == Before("run", e)

Count(e) == Cardinality({i \in 1..Len(effects) : effects[i] = e})

\* run() is over: the process has exited, or run()'s promise is rejected
Ended == {"SUCCEEDED", "FAILED", "REJECTED"}

\* run() met a fatal error
Fatal == error.kind # "none"

FailureReported ==
    /\ InRun("comment")
    /\ outputs = <<[success |-> FALSE, error |-> error, cost |-> 0]>>
    /\ exits = <<1>>

(***************************************************************************)
(* C1                                                                      *)
(***************************************************************************)
\* C1: a run that has ended after a fatal error (building the context,
\* validating the configuration, git setup, the model specifier, the
\* subprocess, any other exception) has posted the failure comment, has
\* written the failure record holding the error, and has exited with 1.
C1_FatalErrorReported == (pc \in Ended /\ Fatal) => FailureReported

(***************************************************************************)
(* C2                                                                      *)
(***************************************************************************)
\* C2: a run that has ended is in exactly one of SUCCEEDED, with exit
\* status 0, and FAILED, with exit status 1; process.exit was called once,
\* and the agent was not started a second time.
C2_EndsSucceededOrFailed ==
    pc \in Ended =>
        /\ \/ pc = "SUCCEEDED" /\ exits = <<0>>
           \/ pc = "FAILED" /\ exits = <<1>>
        /\ Count("spawn") <= 1
        /\ Count("run") = 1

(***************************************************************************)
(* C3                                                                      *)
(***************************************************************************)
\* C3: the agent is spawned only after the run attempted a session download,
\* and a run that succeeded attempted a session upload after the spawn.
C3_RestoreRunCheckpoint ==
    /\ Occurs("spawn") =>
           \E i, j, k \in 1..Len(effects) :
               i < j /\ j < k /\ effects[i] = "run" /\ effects[j] = "GET"
                              /\ effects[k] = "spawn"
    /\ pc = "SUCCEEDED" => Before("spawn", "PUT")

(***************************************************************************)
(* C4                                                                      *)
(***************************************************************************)
\* C4: when the run has terminated, with success or with failure, there is
\* no file at the scratch archive path.
C4_ScratchArchiveCleaned == pc \in {"SUCCEEDED", "FAILED"} => ~zip.exists

C6_ConfigFailsFast ==
    (context.built /\ ~context.configValid) =>
        /\ pc \in {"validateConfig", "catch", "writeFailure", "exit1", "FAILED", "REJECTED"}
        /\ \A e \in {"git", "GET", "spawn", "POST", "PUT"} : ~InRun(e)
        /\ pc # "validateConfig" => error.kind = "config"

\* a run with missing configuration that has reported the failure
C6_Witness ==
    context.built /\ ~context.configValid /\ pc = "FAILED" /\ FailureReported

(***************************************************************************)
(* C7                                                                      *)
(***************************************************************************)
Sentinels(op) ==
    CASE op = "zipSession" -> {"null"}
      [] op = "unzipSession" -> {"null"}
      [] op = "getLatestSessionId" -> {"null"}
      [] op = "downloadSession" -> {"false", "null"}
      [] op = "uploadSession" -> {"false"}
      [] op = "cleanupSessionZip" -> {"undefined"}
      [] OTHER -> {}

C8_StderrIsFailureDetail ==
    /\ (error.kind = "subprocess" /\ child.launched /\ child.status # 0) =>
           error.detail = child.stderr
    /\ Count("spawn") <= 1
    /\ inFlight <= 1

(***************************************************************************)
(* C9                                                                      *)
(***************************************************************************)
NumSeparators(s) == Cardinality({i \in 1..Len(s) : s[i] = Separator})

\* exactly one separator, with text on both sides of it
ExactlyTwoComponents(s) ==
    /\ NumSeparators(s) = 1
    /\ s[1] # Separator
    /\ s[Len(s)] # Separator

\* text before the first separator and text right after it
FirstTwoComponents(s) ==
    \E i \in 2..(Len(s) - 1) :
        /\ s[i] = Separator
        /\ \A j \in 1..(i - 1) : s[j] # Separator
        /\ s[i + 1] # Separator

Accepted == pc = "spawn" \/ Occurs("spawn")
Rejected == error.kind = "model"

\* C9 as stated: the specifier is accepted only if it has exactly two
\* non-empty components; every other specifier is rejected with the format
\* error and no subprocess is spawned.
C9_ExactlyTwoAccepted ==
    /\ Accepted => ExactlyTwoComponents(context.opencodeModel)
    /\ Rejected => ~Occurs("spawn")
    /\ (context.built /\ ~ExactlyTwoComponents(context.opencodeModel)) => ~Occurs("spawn")

\* C9 amended: the specifier is accepted if and only if its first two
\* components are non-empty, whatever follows them; every other specifier
\* (no separator, an empty first or second component) is rejected with the
\* format error and no subprocess is spawned.
C9_FirstTwoAccepted ==
    /\ Accepted => FirstTwoComponents(context.opencodeModel)
    /\ Rejected => /\ ~FirstTwoComponents(context.opencodeModel)
                   /\ ~Occurs("spawn")
                   /\ error.detail = "Invalid OPENCODE_MODEL format"
    /\ (context.built /\ ~FirstTwoComponents(context.opencodeModel)) =>
           /\ ~Occurs("spawn")
           /\ pc \notin {"spawn", "child", "cost"}
    /\ (context.built /\ FirstTwoComponents(context.opencodeModel)) => ~Rejected

\* a specifier with a separator was rejected, and the run has terminated
C9_Witness ==
    /\ Rejected
    /\ pc = "FAILED"
    /\ NumSeparators(context.opencodeModel) > 0
    /\ ~Occurs("spawn")

(***************************************************************************)
(* C10, under SpecOutput                                                   *)
(***************************************************************************)
\* a line that is not blank, does not open with a bracket once trimmed, and
\* holds neither marker
QualifyingLine(l) ==
    /\ \E i \in 1..Len(l) : l[i] \notin Whitespace
    /\ LET first == CHOOSE i \in 1..Len(l) :
                        l[i] \notin Whitespace /\ \A j \in 1..(i - 1) : l[j] \in Whitespace
       IN l[first] # "["
    /\ ~\E i \in 1..(Len(l) - 4) : <<l[i], l[i + 1], l[i + 2], l[i + 3], l[i + 4]>> = ToolMarker
    /\ ~\E i \in 1..(Len(l) - 2) : <<l[i], l[i + 1], l[i + 2]>> = ProgressMarker

QualifyingLines(fullOutput) == SelectSeq(Split(fullOutput, "\n"), QualifyingLine)

Min(a, b) == IF a <= b THEN a ELSE b

\* the last min(50, n) qualifying lines, in their order, joined by newlines
LastQualifying(fullOutput) ==
    LET q == QualifyingLines(fullOutput)
        n == Len(q)
    IN Join(SubSeq(q, n - Min(FinalLineLimit, n) + 1, n), "\n")

\* C10 as stated: finalResponse is exactly the last min(50, n) qualifying
\* lines of fullOutput in their order, and all of fullOutput when n = 0.
C10_FinalResponseExact ==
    pc = "returned" =>
        response.finalResponse =
            IF Len(QualifyingLines(response.fullOutput)) = 0
            THEN response.fullOutput
            ELSE LastQualifying(response.fullOutput)

\* C10 amended: finalResponse is the last min(50, n) qualifying lines of
\* fullOutput in their order, joined by newlines, with the white space at
\* the start and at the end of the joined text removed; it is all of
\* fullOutput, untrimmed, when n = 0.
C10_FinalResponseTrimmed ==
    pc = "returned" =>
        /\ response.returned
        /\ response.fullOutput = child.stdout
        /\ response.finalResponse =
               IF Len(QualifyingLines(response.fullOutput)) = 0
               THEN response.fullOutput
               ELSE Trim(LastQualifying(response.fullOutput))

\* an output with more than 50 qualifying lines and a line that does not
\* qualify, after extraction
C10_Witness ==
    /\ pc = "returned"
    /\ Len(QualifyingLines(response.fullOutput)) > FinalLineLimit
    /\ Len(Split(response.fullOutput, "\n")) > Len(QualifyingLines(response.fullOutput))

(***************************************************************************)
(* Steps of session.js calls                                               *)
(***************************************************************************)
\* this step is a call of op
Called(op) == lastCall'.n = lastCall.n + 1 /\ lastCall'.op = op

\* this step sent a request
Sent(req) == effects' = effects \o <<req>>

\* C11: a download answered 404 returns false and leaves the state
\* directory and the scratch archive exactly as they were.
C11_NotFoundTouchesNothing ==
    [][(Called("downloadSession") /\ lastCall'.status = "404")
         => /\ lastCall'.ret = "false"
            /\ ~lastCall'.threw
            /\ dir' = dir
            /\ zip' = zip]_vars

C11_Witness ==
    /\ lastCall.op = "downloadSession"
    /\ lastCall.status = "404"
    /\ lastCall.ret = "false"
    /\ dir.exists
    /\ zip.exists

\* C12: a restore from an archive path where no file is returns null,
\* creates no state directory and changes no file.
C12_MissingArchiveTouchesNothing ==
    [][(Called("unzipSession") /\ lastCall'.status = "ENOENT")
         => /\ lastCall'.ret = "null"
            /\ ~lastCall'.threw
            /\ dir' = dir
            /\ zip' = zip
            /\ remote' = remote]_vars

C12_Witness ==
    /\ lastCall.op = "unzipSession"
    /\ lastCall.status = "ENOENT"
    /\ lastCall.ret = "null"
    /\ ~dir.exists

\* C13: zipSession changes nothing but the scratch archive: the state
\* directory (and the remote blob) are after the call what they were before
\* it, whether it returns the archive path or null.
C13_ArchiveLeavesStateDirectory ==
    [][Called("zipSession")
         => /\ lastCall'.ret \in {"path", "null"}
            /\ dir' = dir
            /\ remote' = remote]_vars

C13_Witness ==
    /\ lastCall.op = "zipSession"
    /\ lastCall.ret = "path"
    /\ dir.exists
    /\ dir.files # NoFiles
    /\ zip.exists

\* C14: uploadSession returns true only when it sent a PUT carrying the
\* bytes of the archive and the store answered with success; when zipSession
\* gave no archive it sends nothing and returns false; when the store
\* answers without success it returns false and the blob is not replaced.
C14_UploadTrueOnlyOnStoredArchive ==
    [][Called("uploadSession")
         => /\ lastCall'.ret \in {"true", "false"}
            /\ lastCall'.ret = "true"
                 => /\ lastCall'.status = "200"
                    /\ Sent("PUT")
                    /\ zip'.exists
                    /\ remote' = zip'
            /\ lastCall'.status = "no archive"
                 => /\ lastCall'.ret = "false"
                    /\ effects' = effects
                    /\ remote' = remote
            /\ lastCall'.status \in {"5xx", "unreachable"}
                 => /\ lastCall'.ret = "false"
                    /\ remote' = remote]_vars

C14_Witness ==
    /\ lastCall.op = "uploadSession"
    /\ lastCall.ret = "true"
    /\ Occurs("PUT")
    /\ remote = zip
    /\ zip.exists

\* C20: no stale scratch archive is handed on. When zipSession returns the
\* path, the archive there holds exactly the files the state directory has
\* at that call; a PUT of uploadSession carries that archive; and when the
\* old archive was removed and none was made, zipSession returns null and
\* uploadSession returns false having sent nothing.
C20_NoStaleArchive ==
    [][/\ (Called("zipSession") /\ lastCall'.ret = "path")
            => zip' = Archive(dir.files)
       /\ (Called("uploadSession") /\ effects' # effects)
            => /\ zip' = Archive(dir.files)
               /\ lastCall'.ret = "true" => remote' = Archive(dir.files)
       /\ (Called("zipSession") /\ zip.exists /\ ~zip'.exists)
            => lastCall'.ret = "null"
       /\ (Called("uploadSession") /\ zip.exists /\ ~zip'.exists)
            => /\ lastCall'.ret = "false"
               /\ effects' = effects
               /\ remote' = remote]_vars

\* an upload went through, and the store holds the archive of the files
\* the state directory has
C20_Witness ==
    /\ lastCall.op = "uploadSession"
    /\ lastCall.ret = "true"
    /\ Occurs("PUT")
    /\ zip = Archive(dir.files)
    /\ remote = Archive(dir.files)
    /\ dir.files["ses_1"] = "v1"
    /\ dir.files["ses_2"] = "v2"

\* the directories a restore can find empty: none, or one with no file
EmptyDirs == {NoDir, Dir(NoFiles)}

Reported == InRun("POST")
ReportedAs(t) == \E i \in 1..Len(effects) - 1 : effects[i] = "POST" /\ effects[i + 1] = t

\* C15: telemetry is best effort. Whatever the POST of reportToSupabase
\* does, it is not a fatal error of the run: after it the run goes on to
\* write the success record, and unless writing that record itself fails it
\* ends with that record written and exit status 0.
C15_TelemetryBestEffort ==
    Reported
        => /\ error.kind \in {"none", "output"}
           /\ error.kind = "none"
                => /\ pc \in {"writeOutput", "exit0", "SUCCEEDED"}
                   /\ pc \in {"exit0", "SUCCEEDED"} => outputs = <<SuccessRecord>>
                   /\ pc = "SUCCEEDED" => exits = <<0>>

C15_Witness ==
    /\ pc = "SUCCEEDED"
    /\ ReportedAs("unreachable")
    /\ outputs = <<SuccessRecord>>
    /\ exits = <<0>>

\* the sum the spec describes: the cost of every record that has a numeric
\* one, every other record counting as 0
RECURSIVE ValidSum(_)
ValidSum(rs) ==
    IF rs = <<>> THEN 0
    ELSE ValidSum(Tail(rs))
         + (IF Head(rs).json /\ Head(rs).type = "number" THEN Head(rs).n ELSE 0)

\* run() has computed the cost
CostComputed == records # <<>>

\* C16: the cost run() computes and reports is the sum of the numeric costs
\* of the records of the latest session; a record with no cost, a null cost
\* or a cost that cannot be read counts as 0 and the others are still
\* summed; and no such record makes the run fail.
C16_CostSumsValidRecords ==
    CostComputed
        => /\ totalCost = ValidSum(records)
           /\ pc = "SUCCEEDED" => outputs = <<[success |-> TRUE, error |-> NoError,
                                               cost |-> ValidSum(records)]>>
           /\ error.kind \in {"none", "output"}

\* C18: getSessionId gives equal identifiers for equal (projectId, branch),
\* and for one projectId different identifiers for different branches.
C18_SessionIdPerBranch ==
    \A i, j \in 1..Len(keys) :
        /\ keys[i].context = keys[j].context => keys[i].id = keys[j].id
        /\ (/\ keys[i].context.projectId = keys[j].context.projectId
            /\ keys[i].context.branch # keys[j].context.branch)
             => keys[i].id # keys[j].id

\* two branches of one project, one the other with the separator added
C18_Witness ==
    /\ Len(keys) = 2
    /\ keys[1].context.projectId = keys[2].context.projectId
    /\ keys[2].context.branch = keys[1].context.branch \o <<"_">>
    /\ keys[1].id # keys[2].id

\* C19: no run writes both a success record and a failure record; and a run
\* whose child succeeded, however cost computation, telemetry and the
\* writing of the success record go, ends with exactly one record written,
\* the success record with exit status 0 or a failure record with exit
\* status 1.
C19_OneRecordMatchingExit ==
    /\ \A i, j \in 1..Len(outputs) : outputs[i].success = outputs[j].success
    /\ (CostComputed /\ pc \in Ended)
         => \/ outputs = <<SuccessRecord>> /\ exits = <<0>>
            \/ outputs = <<FailureRecord>> /\ exits = <<1>>

====
